---- MODULE Spec2Model ----
(***************************************************************************)
(* Model of backend/app/main.py: the onboarding session endpoints          *)
(* (start, message, voice_template, finalize) over _SESSIONS, and the      *)
(* chat endpoints (chat, chat_stream) over _CONVERSATION_HISTORY.          *)
(*                                                                         *)
(* Every handler is cut at its await points: one action per stretch of     *)
(* code the event loop runs without suspension.  Text is a sequence of     *)
(* characters; a JSON / Python value is a record [t, s, n].                *)
(***************************************************************************)
EXTENDS Integers, Sequences, FiniteSets, TLC

(* ------------------------------ bounds -------------------------------- *)
\* requests handled by the onboarding endpoints in one behaviour
MaxRequests == 3
\* requests handled by the chat endpoints in one behaviour
MaxTurns == 2
\* chunks with content in one token stream
MaxDeltas == 2
\* turns already completed on thread t2 when a behaviour starts
PrefillTurns == 10
\* requests handled by the synthesis endpoints in one behaviour
MaxSynth == 3
\* characters in a channels value handed to the extractor
MaxChanLen == 3

(* ----------------------------- constants ------------------------------ *)
\* the length above which a thread is pruned
HistoryCap == 21
\* the entries kept after the system message
KeepLast == 20

(* ------------------------------ values -------------------------------- *)
\* Python None / JSON null
None == [t |-> "null", s |-> <<>>, n |-> 0]
\* a key that a dict does not hold
Absent == [t |-> "absent", s |-> <<>>, n |-> 0]
JStr(s) == [t |-> "str", s |-> s, n |-> 0]
JNum(n) == [t |-> "num", s |-> <<>>, n |-> n]
JBytes(b) == [t |-> "bytes", s |-> b, n |-> 0]

\* Python truthiness, as used by `if v`, `not x`, `x or y`
Truthy(v) ==
    CASE v.t = "str" -> v.s # <<>>
      [] v.t = "bytes" -> v.s # <<>>
      [] v.t = "num" -> v.n # 0
      [] OTHER -> FALSE

IsSpace(c) == c \in {" ", "\n"}

RECURSIVE LStrip(_)
LStrip(s) == IF s # <<>> /\ IsSpace(Head(s)) THEN LStrip(Tail(s)) ELSE s

RECURSIVE RStrip(_)
RStrip(s) ==
    IF s # <<>> /\ IsSpace(s[Len(s)]) THEN RStrip(SubSeq(s, 1, Len(s) - 1)) ELSE s

\* str.strip()
Strip(s) == RStrip(LStrip(s))

\* sub is a prefix of s
StartsWith(s, sub) == Len(sub) <= Len(s) /\ SubSeq(s, 1, Len(sub)) = sub

\* `sub in s` on strings
Contains(s, sub) ==
    \E i \in 1..(Len(s) + 1) :
        i + Len(sub) - 1 <= Len(s) /\ SubSeq(s, i, i + Len(sub) - 1) = sub

\* s.replace(sub, ""): one left-to-right pass over non-overlapping matches
RECURSIVE Remove(_, _)
Remove(s, sub) ==
    IF s = <<>> THEN <<>>
    ELSE IF StartsWith(s, sub) THEN Remove(SubSeq(s, Len(sub) + 1, Len(s)), sub)
    ELSE <<Head(s)>> \o Remove(Tail(s), sub)

(* --------------------------- Field Schema ------------------------------ *)
_FIELD_ORDER ==
    << "brand", "industry", "product", "audience", "channels",
       "goals", "tone", "objections", "region_lang" >>

FieldNames == { _FIELD_ORDER[i] : i \in 1..Len(_FIELD_ORDER) }

\* keys an extraction result may carry: the schema and one key outside it
Keys == FieldNames \cup {"nickname"}

EmptyDict == [k \in Keys |-> Absent]

DictOf(d) == [k \in Keys |-> IF k \in DOMAIN d THEN d[k] ELSE Absent]

Has(d, k) == d[k].t # "absent"

SMS == <<"duan", "xin">>
DIAN == <<"dian">>
PHONE == <<"dian", "hua">>
BOTH == <<"liang", "zhe">>

(* ------------------------------ sessions ------------------------------- *)
\* the recomputation of `missing` in _apply_extracted
MissingOf(fields) == SelectSeq(_FIELD_ORDER, LAMBDA k : ~Truthy(fields[k]))

\* a mutation: missing is patched by dropping the keys the result carries
ApplyExtractedPatchMissing(state, extracted) ==
    [state EXCEPT
        !.fields = [k \in FieldNames |->
                        IF Has(extracted, k) /\ Truthy(extracted[k])
                        THEN extracted[k] ELSE state.fields[k]],
        !.missing = SelectSeq(state.missing, LAMBDA k : ~Has(extracted, k))]

\* a mutation: a key outside the schema is stored as well
ApplyExtractedAnyKey(state, extracted) ==
    LET f == [k \in FieldNames \cup { q \in Keys : Has(extracted, q) /\ Truthy(extracted[q]) } |->
                 IF Has(extracted, k) /\ Truthy(extracted[k])
                 THEN extracted[k] ELSE state.fields[k]]
    IN  [state EXCEPT !.fields = f, !.missing = MissingOf(f)]

\* a mutation: a null or empty value is stored as well
ApplyExtractedAssignsNull(state, extracted) ==
    LET f == [k \in FieldNames |->
                 IF Has(extracted, k) THEN extracted[k] ELSE state.fields[k]]
    IN  [state EXCEPT !.fields = f, !.missing = MissingOf(f)]

\* a mutation: a supplied value is appended to the current one
ApplyExtractedConcat(state, extracted) ==
    LET f == [k \in FieldNames |->
                 IF Has(extracted, k) /\ Truthy(extracted[k])
                 THEN IF state.fields[k].t = "str" /\ extracted[k].t = "str"
                      THEN JStr(state.fields[k].s \o extracted[k].s)
                      ELSE extracted[k]
                 ELSE state.fields[k]]
    IN  [state EXCEPT !.fields = f, !.missing = MissingOf(f)]

_apply_extracted(state, extracted) ==
    LET f == [k \in FieldNames |->
                 IF Has(extracted, k) /\ Truthy(extracted[k])
                 THEN extracted[k] ELSE state.fields[k]]
    IN  [state EXCEPT !.fields = f, !.missing = MissingOf(f)]

\* the SessionState that _new_session constructs before the seed is applied
NewState ==
    [ fields |-> [k \in FieldNames |-> None],
      missing |-> _FIELD_ORDER,
      history |-> <<>>,
      voice_template |-> None ]

\* a mutation: the test for the SMS token alone comes first
NormalizeChannelsSmsFirst(obj) ==
    LET ch == obj["channels"] IN
    IF ch.t # "str" THEN obj
    ELSE LET c == Strip(ch.s) IN
         IF Contains(c, SMS)
            THEN [obj EXCEPT !["channels"] = JStr(SMS)]
         ELSE IF Contains(c, SMS) /\ Contains(c, DIAN)
            THEN [obj EXCEPT !["channels"] = JStr(BOTH)]
         ELSE IF Contains(c, DIAN) \/ Contains(c, PHONE)
            THEN [obj EXCEPT !["channels"] = JStr(PHONE)]
         ELSE obj

\* the channel normalisation of _extract_fields
NormalizeChannels(obj) ==
    LET ch == obj["channels"] IN
    IF ch.t # "str" THEN obj
    ELSE LET c == Strip(ch.s) IN
         IF Contains(c, SMS) /\ Contains(c, DIAN)
            THEN [obj EXCEPT !["channels"] = JStr(BOTH)]
         ELSE IF Contains(c, SMS)
            THEN [obj EXCEPT !["channels"] = JStr(SMS)]
         ELSE IF Contains(c, DIAN) \/ Contains(c, PHONE)
            THEN [obj EXCEPT !["channels"] = JStr(PHONE)]
         ELSE obj

\* _extract_fields once the client exists; x is what the service call does:
\* it raises, or returns a content that is None, not JSON, JSON that is no
\* object, or a JSON object
_extract_fields(x) ==
    CASE x.kind = "object" -> NormalizeChannels(x.obj)
      [] x.kind = "none" -> EmptyDict
      [] OTHER -> EmptyDict

\* what val(k) of _build_profile_summary needs: a falsy value or a string
Summarizable(fields) == \A k \in FieldNames : ~Truthy(fields[k]) \/ fields[k].t = "str"

\* the documented default of a field, an opaque non-empty text
DefaultOf(k) == <<"default", k>>

\* _build_profile_summary where it does not raise: the text after each label
_build_profile_summary(fields) ==
    [k \in FieldNames |->
        LET v == IF Truthy(fields[k]) THEN Strip(fields[k].s) ELSE <<>>
        IN  IF v # <<>> THEN v ELSE DefaultOf(k)]

\* _strip_markdown on the texts the prompt builder returns here: `md or ""`,
\* the emphasis markers removed, the result stripped
_strip_markdown(md) ==
    Strip(SelectSeq(IF Truthy(md) THEN md.s ELSE <<>>, LAMBDA c : c # "*"))

\* base64 of one byte, for the bytes the uploads here are made of
B64Byte(x) == IF x = "x01" THEN <<"A", "Q", "=", "=">> ELSE <<"A", "g", "=", "=">>

\* base64.b64encode(b).decode('utf-8') for payloads of at most one byte
B64(b) == JStr(IF b = <<>> THEN <<>> ELSE B64Byte(b[1]))

Sentinel == <<"[", "D", "O", "N", "E", "]">>

(* ------------------------------- inputs -------------------------------- *)
MISSING == "__MISSING_MODEL__"

\* what the extraction call of _extract_fields can do
XRaise == [kind |-> "raise", obj |-> EmptyDict]
XNone == [kind |-> "none", obj |-> EmptyDict]
XNotJson == [kind |-> "notjson", obj |-> EmptyDict]
XNonObject == [kind |-> "nonobject", obj |-> EmptyDict]
XObj(d) == [kind |-> "object", obj |-> DictOf(d)]

ExtractResponses ==
    { XRaise, XNone, XNotJson, XNonObject,
      XObj([brand |-> JStr(<<"A">>)]),
      XObj([brand |-> JStr(<<"B">>), nickname |-> JStr(<<"Z">>)]),
      XObj([brand |-> None, tone |-> JNum(5)]),
      XObj([brand |-> JStr(<<>>), channels |-> JStr(<<" ", "duan", "xin", "dian", "hua">>)]),
      XObj([k \in FieldNames |-> JStr(<<"v">>)]) }

\* what a chat.completions.create call for a reply can do: raise, or return
\* a content (None or a text)
RRaise == [kind |-> "raise", content |-> None]
ROk(c) == [kind |-> "ok", content |-> c]

ReplyOutcomes ==
    { RRaise, ROk(None), ROk(JStr(<<"o", "k">>)),
      ROk(JStr(<<"o", "k", " ">> \o Sentinel)),
      ROk(JStr(<<"[", "D", "O">> \o Sentinel \o <<"N", "E", "]">>)) }

PromptOutcomes == { RRaise, ROk(JStr(<<"*", "*", "P", "*", "*", "\n">>)) }

Seeds == { None, JStr(<<>>), JStr(<<"s">>) }
Messages == { JStr(<<"m">>) }
Uploads == { <<>>, <<"x01">> }

Slots == {1, 2}

\* ids a request may carry: 1, the id start hands out, and 0, which it never does
SessionIds == {0, 1}

(* ------------------------------- state --------------------------------- *)
VARIABLES
    MODEL,          \* the deployment name, MISSING when not configured
    aoai_ok,        \* whether get_aoai_client finds its endpoint and key
    _SESSIONS,      \* session id -> SessionState
    assistants,     \* the agent configurations created at the provider
    req,            \* the onboarding requests in flight, one per slot
    nreq,           \* onboarding requests begun
    resp,           \* the last response sent by an onboarding endpoint
    finalized,      \* ids on which a finalize call has succeeded
    issued,         \* ids that a start response has returned to a client
    _CONVERSATION_HISTORY,  \* thread id -> message list
    creq,           \* the chat requests in flight, one per slot
    cresp,          \* the last chat request that ended
    nturn,          \* chat requests begun
    m_state,        \* a session under repeated merges
    m_prev,         \* its fields before the last merge
    m_x,            \* the extraction result merged last
    _client,        \* the CosyVoiceClient singleton, None until first use
    treq,           \* the synthesis requests in flight, one per slot
    tresp,          \* the last response sent by a synthesis endpoint
    ntts,           \* synthesis requests begun
    x_in,           \* what the extraction call did in the last extraction
    x_out           \* what _extract_fields returned for it

svars == << _SESSIONS, assistants, req, resp, nreq, finalized, issued >>
env == << MODEL, aoai_ok >>
cvars == << _CONVERSATION_HISTORY, creq, cresp, nturn >>
mvars == << m_state, m_prev, m_x >>
tvars == << _client, treq, tresp, ntts >>
xvars == << x_in, x_out >>
vars == << MODEL, aoai_ok, _SESSIONS, assistants, req, resp, nreq, finalized, issued,
           _CONVERSATION_HISTORY, creq, cresp, nturn, m_state, m_prev, m_x,
           _client, treq, tresp, ntts, x_in, x_out >>

Idle ==
    [ op |-> "none", pc |-> "idle", sid |-> 0, arg |-> None,
      status |-> 0, raised |-> "none", calls |-> 0, afterFin |-> FALSE,
      reply |-> None, done |-> FALSE, content |-> None,
      summary |-> [k \in FieldNames |-> <<>>],
      prompt |-> None, instructions |-> <<>>, meta |-> Absent,
      agent |-> 0, profile |-> NewState.fields, hasvt |-> FALSE ]

\* a slot a new request may take: the lowest one that holds no request in flight
FreeSlot(r) ==
    /\ req[r].pc = "idle"
    /\ \A q \in Slots : q < r => req[q].pc # "idle"

Put(S, sid, st) == [s \in DOMAIN S \cup {sid} |-> IF s = sid THEN st ELSE S[s]]

\* a request as it starts: its operation, id, input, and whether a finalize
\* of that id had succeeded before
Fresh(op, sid, arg) ==
    [Idle EXCEPT !.op = op, !.sid = sid, !.arg = arg,
                 !.afterFin = sid \in finalized]

\* the request ends with a status: the slot is free again and the response
\* is the last one sent
Reply(r, rq, code) ==
    /\ req' = [req EXCEPT ![r] = Idle]
    /\ resp' = [rq EXCEPT !.pc = "done", !.status = code,
                          !.summary = Idle.summary, !.instructions = Idle.instructions,
                          !.meta = Idle.meta]

\* the request ends with an error response: `where` names the call that
\* raised the exception
Raise(r, rq, code, where) == Reply(r, [rq EXCEPT !.raised = where], code)

\* an id a client can send: one returned by a start response, or one that
\* names no session (the ids are uuid4 values, known only from a response)
Addressable(sid) == sid \in issued \/ sid \notin DOMAIN _SESSIONS

\* the request suspends at its next await
Continue(r, rq) ==
    /\ req' = [req EXCEPT ![r] = rq]
    /\ UNCHANGED resp

SInit ==
    /\ _SESSIONS = << >>
    /\ assistants = << >>
    /\ req = [r \in Slots |-> Idle]
    /\ resp = Idle
    /\ nreq = 0
    /\ finalized = {}
    /\ issued = {}

(* ---------------------- onboard_session_start --------------------------- *)
\* lines 672-690: the configuration check, _new_session (the seed's
\* extraction runs inside it, without suspension), the client, the call
onboard_session_start(r, seed, x) ==
    /\ FreeSlot(r) /\ nreq < MaxRequests
    /\ Cardinality(DOMAIN _SESSIONS) + 1 \in SessionIds
    /\ Truthy(seed) \/ x = XNone
    /\ nreq' = nreq + 1
    /\ LET sid == Cardinality(DOMAIN _SESSIONS) + 1
           rq == Fresh("start", sid, seed)
           seeded == [_apply_extracted(NewState, _extract_fields(x))
                         EXCEPT !.history = <<[role |-> "user", text |-> seed]>>]
       IN  IF MODEL = MISSING
             THEN /\ Raise(r, rq, 500, "_ensure_model_configured")
                  /\ UNCHANGED _SESSIONS
           ELSE IF Truthy(seed) /\ ~aoai_ok
             THEN /\ Raise(r, rq, 500, "_extract_fields")
                  /\ UNCHANGED _SESSIONS
           ELSE IF ~aoai_ok
             THEN /\ Raise(r, rq, 500, "get_aoai_client")
                  /\ _SESSIONS' = Put(_SESSIONS, sid, NewState)
           ELSE /\ Continue(r, [rq EXCEPT !.pc = "start_reply",
                                       !.calls = IF Truthy(seed) THEN 1 ELSE 0])
                /\ _SESSIONS' = Put(_SESSIONS, sid,
                                    IF Truthy(seed) THEN seeded ELSE NewState)
    /\ UNCHANGED << assistants, finalized, issued, env, cvars, mvars, tvars, xvars >>

\* a mutation: the greeting is put in front of the history
StartReplyPrepend(r, out) ==
    /\ req[r].pc = "start_reply"
    /\ LET rq == [req[r] EXCEPT !.calls = @ + 1]
           sid == req[r].sid
       IN  IF out.kind = "raise"
             THEN /\ Raise(r, rq, 500, "create")
                  /\ UNCHANGED << _SESSIONS, issued >>
           ELSE /\ _SESSIONS' = [_SESSIONS EXCEPT ![sid].history =
                        <<[role |-> "assistant", text |-> out.content]>> \o @]
                /\ Reply(r, [rq EXCEPT !.reply = out.content], 200)
                /\ issued' = issued \cup {sid}
    /\ UNCHANGED << assistants, nreq, finalized, env, cvars, mvars, tvars, xvars >>

\* a mutation: a greeting call that raises takes the session out of the store
StartReplyRollback(r, out) ==
    /\ req[r].pc = "start_reply"
    /\ LET rq == [req[r] EXCEPT !.calls = @ + 1]
           sid == req[r].sid
       IN  IF out.kind = "raise"
             THEN /\ Raise(r, rq, 500, "create")
                  /\ _SESSIONS' = [s \in DOMAIN _SESSIONS \ {sid} |-> _SESSIONS[s]]
                  /\ UNCHANGED issued
           ELSE /\ _SESSIONS' = [_SESSIONS EXCEPT ![sid].history =
                        Append(@, [role |-> "assistant", text |-> out.content])]
                /\ Reply(r, [rq EXCEPT !.reply = out.content], 200)
                /\ issued' = issued \cup {sid}
    /\ UNCHANGED << assistants, nreq, finalized, env, cvars, mvars, tvars, xvars >>

\* lines 686-696: the greeting arrives, or the call raises
start_reply(r, out) ==
    /\ req[r].pc = "start_reply"
    /\ LET rq == [req[r] EXCEPT !.calls = @ + 1]
           sid == req[r].sid
       IN  IF out.kind = "raise"
             THEN /\ Raise(r, rq, 500, "create")
                  /\ UNCHANGED << _SESSIONS, issued >>
           ELSE /\ _SESSIONS' = [_SESSIONS EXCEPT ![sid].history =
                        Append(@, [role |-> "assistant", text |-> out.content])]
                /\ Reply(r, [rq EXCEPT !.reply = out.content], 200)
                /\ issued' = issued \cup {sid}
    /\ UNCHANGED << assistants, nreq, finalized, env, cvars, mvars, tvars, xvars >>

(* --------------------- onboard_session_message -------------------------- *)
\* a mutation: an id that names no session gets a new session
OnboardSessionMessageAutoCreate(r, sid, text) ==
    /\ FreeSlot(r) /\ nreq < MaxRequests
    /\ Addressable(sid)
    /\ nreq' = nreq + 1
    /\ LET rq == Fresh("message", sid, text)
           S == IF sid \in DOMAIN _SESSIONS THEN _SESSIONS
                ELSE Put(_SESSIONS, sid, NewState)
       IN  IF MODEL = MISSING
             THEN /\ Raise(r, rq, 500, "_ensure_model_configured")
                  /\ UNCHANGED _SESSIONS
           ELSE /\ _SESSIONS' = [S EXCEPT ![sid].history =
                        Append(@, [role |-> "user", text |-> text])]
                /\ Continue(r, [rq EXCEPT !.pc = "message_extract"])
    /\ UNCHANGED << assistants, finalized, issued, env, cvars, mvars, tvars, xvars >>

\* lines 701-716: the check, the lookup, the user entry, the extraction call
onboard_session_message(r, sid, text) ==
    /\ FreeSlot(r) /\ nreq < MaxRequests
    /\ Addressable(sid)
    /\ nreq' = nreq + 1
    /\ LET rq == Fresh("message", sid, text)
       IN  IF MODEL = MISSING
             THEN /\ Raise(r, rq, 500, "_ensure_model_configured")
                  /\ UNCHANGED _SESSIONS
           ELSE IF sid \notin DOMAIN _SESSIONS
             THEN /\ Raise(r, rq, 404, "not_found")
                  /\ UNCHANGED _SESSIONS
           ELSE /\ _SESSIONS' = [_SESSIONS EXCEPT ![sid].history =
                        Append(@, [role |-> "user", text |-> text])]
                /\ Continue(r, [rq EXCEPT !.pc = "message_extract"])
    /\ UNCHANGED << assistants, finalized, issued, env, cvars, mvars, tvars, xvars >>

\* lines 716-743: the extraction comes back, the merge, the reply call
message_extracted(r, x) ==
    /\ req[r].pc = "message_extract"
    /\ LET sid == req[r].sid
       IN  IF ~aoai_ok
             THEN /\ Raise(r, req[r], 500, "_extract_fields")
                  /\ UNCHANGED _SESSIONS
           ELSE /\ _SESSIONS' = [_SESSIONS EXCEPT ![sid] =
                        _apply_extracted(@, _extract_fields(x))]
                /\ Continue(r, [req[r] EXCEPT !.pc = "message_reply", !.calls = @ + 1])
    /\ UNCHANGED << assistants, nreq, finalized, issued, env, cvars, mvars, tvars, xvars >>

\* a mutation: the cleaned text is written to the first history entry
MessageReplyEditsFirst(r, out) ==
    /\ req[r].pc = "message_reply"
    /\ LET rq == [req[r] EXCEPT !.calls = @ + 1]
           sid == req[r].sid
           st == _SESSIONS[sid]
           hist == Append(st.history, [role |-> "assistant", text |-> out.content])
           clean == JStr(Strip(Remove(out.content.s, Sentinel)))
       IN  IF out.kind = "raise"
             THEN /\ Raise(r, rq, 500, "create")
                  /\ UNCHANGED _SESSIONS
           ELSE IF out.content.t # "str"
             THEN /\ _SESSIONS' = [_SESSIONS EXCEPT ![sid].history = hist]
                  /\ Raise(r, rq, 500, "in")
           ELSE IF Contains(out.content.s, Sentinel)
             THEN /\ _SESSIONS' = [_SESSIONS EXCEPT ![sid].history =
                          [hist EXCEPT ![1].text = clean]]
                  /\ Reply(r, [rq EXCEPT !.reply = clean, !.done = TRUE], 200)
           ELSE /\ _SESSIONS' = [_SESSIONS EXCEPT ![sid].history = hist]
                /\ Reply(r, [rq EXCEPT !.reply = out.content,
                                    !.done = (Len(st.missing) = 0)], 200)
    /\ UNCHANGED << assistants, nreq, finalized, issued, env, cvars, mvars, tvars, xvars >>

\* lines 739-755: the reply arrives (or the call raises), the assistant
\* entry, done, the sentinel
\* a mutation: the done of the last message response on the session is kept
MessageReplyDoneSticky(r, out) ==
    /\ req[r].pc = "message_reply"
    /\ LET rq == [req[r] EXCEPT !.calls = @ + 1]
           sid == req[r].sid
           st == _SESSIONS[sid]
           hist == Append(st.history, [role |-> "assistant", text |-> out.content])
           clean == JStr(Strip(Remove(out.content.s, Sentinel)))
       IN  IF out.kind = "raise"
             THEN /\ Raise(r, rq, 500, "create")
                  /\ UNCHANGED _SESSIONS
           ELSE IF out.content.t # "str"
             THEN /\ _SESSIONS' = [_SESSIONS EXCEPT ![sid].history = hist]
                  /\ Raise(r, rq, 500, "in")
           ELSE IF Contains(out.content.s, Sentinel)
             THEN /\ _SESSIONS' = [_SESSIONS EXCEPT ![sid].history =
                          [hist EXCEPT ![Len(hist)].text = clean]]
                  /\ Reply(r, [rq EXCEPT !.reply = clean, !.done = TRUE,
                                      !.content = out.content], 200)
           ELSE /\ _SESSIONS' = [_SESSIONS EXCEPT ![sid].history = hist]
                /\ Reply(r, [rq EXCEPT !.reply = out.content, !.content = out.content,
                                    !.done = (Len(st.missing) = 0
                                              \/ (resp.op = "message" /\ resp.sid = sid /\ resp.done))], 200)
    /\ UNCHANGED << assistants, nreq, finalized, issued, env, cvars, mvars, tvars, xvars >>

\* a mutation: a reply call that raises takes the last history entry back
MessageReplyRollback(r, out) ==
    /\ req[r].pc = "message_reply"
    /\ LET rq == [req[r] EXCEPT !.calls = @ + 1]
           sid == req[r].sid
           st == _SESSIONS[sid]
           hist == Append(st.history, [role |-> "assistant", text |-> out.content])
           clean == JStr(Strip(Remove(out.content.s, Sentinel)))
       IN  IF out.kind = "raise"
             THEN /\ Raise(r, rq, 500, "create")
                  /\ _SESSIONS' = [_SESSIONS EXCEPT ![sid].history =
                          SubSeq(@, 1, Len(@) - 1)]
           ELSE IF out.content.t # "str"
             THEN /\ _SESSIONS' = [_SESSIONS EXCEPT ![sid].history = hist]
                  /\ Raise(r, rq, 500, "in")
           ELSE IF Contains(out.content.s, Sentinel)
             THEN /\ _SESSIONS' = [_SESSIONS EXCEPT ![sid].history =
                          [hist EXCEPT ![Len(hist)].text = clean]]
                  /\ Reply(r, [rq EXCEPT !.reply = clean, !.done = TRUE,
                                      !.content = out.content], 200)
           ELSE /\ _SESSIONS' = [_SESSIONS EXCEPT ![sid].history = hist]
                /\ Reply(r, [rq EXCEPT !.reply = out.content, !.content = out.content,
                                    !.done = (Len(st.missing) = 0)], 200)
    /\ UNCHANGED << assistants, nreq, finalized, issued, env, cvars, mvars, tvars, xvars >>

message_reply(r, out) ==
    /\ req[r].pc = "message_reply"
    /\ LET rq == [req[r] EXCEPT !.calls = @ + 1]
           sid == req[r].sid
           st == _SESSIONS[sid]
           hist == Append(st.history, [role |-> "assistant", text |-> out.content])
           clean == JStr(Strip(Remove(out.content.s, Sentinel)))
       IN  IF out.kind = "raise"
             THEN /\ Raise(r, rq, 500, "create")
                  /\ UNCHANGED _SESSIONS
           ELSE IF out.content.t # "str"
             THEN /\ _SESSIONS' = [_SESSIONS EXCEPT ![sid].history = hist]
                  /\ Raise(r, rq, 500, "in")
           ELSE IF Contains(out.content.s, Sentinel)
             THEN /\ _SESSIONS' = [_SESSIONS EXCEPT ![sid].history =
                          [hist EXCEPT ![Len(hist)].text = clean]]
                  /\ Reply(r, [rq EXCEPT !.reply = clean, !.done = TRUE,
                                      !.content = out.content], 200)
           ELSE /\ _SESSIONS' = [_SESSIONS EXCEPT ![sid].history = hist]
                /\ Reply(r, [rq EXCEPT !.reply = out.content, !.content = out.content,
                                    !.done = (Len(st.missing) = 0)], 200)
    /\ UNCHANGED << assistants, nreq, finalized, issued, env, cvars, mvars, tvars, xvars >>

(* ----------------------- upload_voice_template --------------------------- *)
\* lines 764-769: the lookup, then the read of the upload
upload_voice_template(r, sid) ==
    /\ FreeSlot(r) /\ nreq < MaxRequests
    /\ Addressable(sid)
    /\ nreq' = nreq + 1
    /\ LET rq == Fresh("voice", sid, None)
       IN  IF sid \notin DOMAIN _SESSIONS
             THEN Raise(r, rq, 404, "not_found")
             ELSE Continue(r, [rq EXCEPT !.pc = "voice_read"])
    /\ UNCHANGED << _SESSIONS, assistants, finalized, issued, env, cvars, mvars, tvars, xvars >>

\* a mutation: a template that is already set is kept
VoiceReadKeepFirst(r, bytes) ==
    /\ req[r].pc = "voice_read"
    /\ _SESSIONS' = [_SESSIONS EXCEPT ![req[r].sid].voice_template =
                        IF @ = None THEN JBytes(bytes) ELSE @]
    /\ Reply(r, [req[r] EXCEPT !.arg = JBytes(bytes)], 200)
    /\ UNCHANGED << assistants, nreq, finalized, issued, env, cvars, mvars, tvars, xvars >>

\* lines 769-772: the bytes are stored
voice_read(r, bytes) ==
    /\ req[r].pc = "voice_read"
    /\ _SESSIONS' = [_SESSIONS EXCEPT ![req[r].sid].voice_template = JBytes(bytes)]
    /\ Reply(r, [req[r] EXCEPT !.arg = JBytes(bytes)], 200)
    /\ UNCHANGED << assistants, nreq, finalized, issued, env, cvars, mvars, tvars, xvars >>

(* ---------------------- onboard_session_finalize ------------------------- *)
\* lines 777-797: the check, the lookup, the client, the summary, the call
onboard_session_finalize(r, sid) ==
    /\ FreeSlot(r) /\ nreq < MaxRequests
    /\ Addressable(sid)
    /\ nreq' = nreq + 1
    /\ LET rq == Fresh("finalize", sid, None)
       IN  IF MODEL = MISSING
             THEN Raise(r, rq, 500, "_ensure_model_configured")
           ELSE IF sid \notin DOMAIN _SESSIONS
             THEN Raise(r, rq, 404, "not_found")
           ELSE IF ~aoai_ok
             THEN Raise(r, rq, 500, "get_aoai_client")
           ELSE IF ~Summarizable(_SESSIONS[sid].fields)
             THEN Raise(r, rq, 500, "_build_profile_summary")
           ELSE Continue(r, [rq EXCEPT !.pc = "finalize_prompt",
                                     !.summary = _build_profile_summary(_SESSIONS[sid].fields)])
    /\ UNCHANGED << _SESSIONS, assistants, finalized, issued, env, cvars, mvars, tvars, xvars >>

\* a mutation: a prompt call that raises is made once more
FinalizePromptRetry(r, out) ==
    /\ req[r].pc = "finalize_prompt"
    /\ LET rq == [req[r] EXCEPT !.calls = @ + 1]
           vt == _SESSIONS[req[r].sid].voice_template
       IN  IF out.kind = "raise" /\ req[r].calls = 0
             THEN Continue(r, rq)
           ELSE IF out.kind = "raise"
             THEN Raise(r, rq, 500, "create")
             ELSE Continue(r, [rq EXCEPT !.pc = "finalize_create",
                                       !.prompt = out.content,
                                       !.instructions = _strip_markdown(out.content),
                                       !.meta = IF Truthy(vt) THEN B64(vt.s) ELSE Absent])
    /\ UNCHANGED << _SESSIONS, assistants, nreq, finalized, issued, env, cvars, mvars, tvars, xvars >>

\* lines 790-811: the prompt arrives (or the call raises), the instructions,
\* the metadata with the voice template as it is now
finalize_prompt(r, out) ==
    /\ req[r].pc = "finalize_prompt"
    /\ LET rq == [req[r] EXCEPT !.calls = @ + 1]
           vt == _SESSIONS[req[r].sid].voice_template
       IN  IF out.kind = "raise"
             THEN Raise(r, rq, 500, "create")
             ELSE Continue(r, [rq EXCEPT !.pc = "finalize_create",
                                       !.prompt = out.content,
                                       !.instructions = _strip_markdown(out.content),
                                       !.meta = IF Truthy(vt) THEN B64(vt.s) ELSE Absent])
    /\ UNCHANGED << _SESSIONS, assistants, nreq, finalized, issued, env, cvars, mvars, tvars, xvars >>

\* lines 813-818: the worker thread runs assistants.create, reading the
\* brand as it is then; the provider stores the agent, or the call raises
finalize_create(r, ok) ==
    /\ req[r].pc = "finalize_create"
    /\ LET brand == _SESSIONS[req[r].sid].fields["brand"]
           agent == [ name |-> IF Truthy(brand) THEN brand ELSE JStr(<<"Sales Agent">>),
                      instructions |-> req[r].instructions,
                      voice_template_b64 |-> req[r].meta,
                      sid |-> req[r].sid ]
       IN  IF ok
             THEN /\ assistants' = Append(assistants, agent)
                  /\ Continue(r, [req[r] EXCEPT !.pc = "finalize_return",
                                          !.agent = Len(assistants) + 1])
             ELSE /\ Raise(r, req[r], 500, "assistants.create")
                  /\ UNCHANGED assistants
    /\ UNCHANGED << _SESSIONS, nreq, finalized, issued, env, cvars, mvars, tvars, xvars >>

\* lines 819-825: the response, read from the session as it is now; the
\* session stays in _SESSIONS
finalize_return(r) ==
    /\ req[r].pc = "finalize_return"
    /\ LET st == _SESSIONS[req[r].sid]
       IN  Reply(r, [req[r] EXCEPT !.profile = st.fields,
                                !.hasvt = (st.voice_template.t # "null")], 200)
    /\ finalized' = finalized \cup {req[r].sid}
    /\ UNCHANGED << _SESSIONS, assistants, nreq, issued, env, cvars, mvars, tvars, xvars >>

(* ------------------------- conversation threads ------------------------- *)
FALLBACK == <<"fallback">>
INSTRUCTIONS == <<"agent", "instructions">>

SystemMsg(c) == [role |-> "system", content |-> c]
UserMsg(c) == [role |-> "user", content |-> c]
AssistantMsg(c) == [role |-> "assistant", content |-> c]

\* body.message of the n-th chat request
Question(n) == <<"q", ToString(n)>>

\* a mutation: the newest 21 entries are kept and the system message is lost
PruneNewest(h) ==
    IF Len(h) > HistoryCap THEN SubSeq(h, Len(h) - KeepLast, Len(h)) ELSE h

\* lines 455-460 and 536-540: [h[0]] + h[-20:] once the list exceeds 21
Prune(h) ==
    IF Len(h) > HistoryCap
    THEN <<h[1]>> \o SubSeq(h, Len(h) - KeepLast + 1, Len(h))
    ELSE h

\* the thread after n chat turns that ran one after the other and succeeded
RECURSIVE RunTurns(_)
RunTurns(n) ==
    IF n = 0 THEN <<SystemMsg(INSTRUCTIONS)>>
    ELSE Prune(Append(Append(RunTurns(n - 1), UserMsg(<<"p", ToString(n)>>)),
                      AssistantMsg(<<"r", ToString(n)>>)))

ThreadIds == {"t1", "t2"}

\* body.thread_id: None, or an id
ThreadInputs == ThreadIds \cup {"None"}

\* what assistants.retrieve can do: raise, or return instructions
LookupOutcomes == { RRaise, ROk(JStr(<<>>)), ROk(JStr(INSTRUCTIONS)) }

\* what the chat completion of a chat call can do
ChatOutcomes == { RRaise, ROk(None), ROk(JStr(<<"x">>)) }

\* the content of the k-th chunk of a token stream that carries content
Delta(k) == <<"d", ToString(k)>>

CIdle ==
    [ kind |-> "none", pc |-> "idle", tid |-> "None", turn |-> 0,
      status |-> 0, connected |-> TRUE, sent |-> << >>,
      agent |-> [kind |-> "none", content |-> None],
      full_reply |-> << >>, events |-> << >> ]

CFreeSlot(r) ==
    /\ creq[r].pc = "idle"
    /\ \A q \in Slots : q < r => creq[q].pc # "idle"

\* the request ends: the slot is free again
CEnd(r, rq) ==
    /\ creq' = [creq EXCEPT ![r] = CIdle]
    /\ cresp' = [rq EXCEPT !.pc = "done", !.sent = << >>]

CContinue(r, rq) ==
    /\ creq' = [creq EXCEPT ![r] = rq]
    /\ UNCHANGED cresp

TextEvent(c) == [type |-> "text", content |-> c]
DoneEvent == [type |-> "done", content |-> << >>]
ErrorEvent == [type |-> "error", content |-> << >>]

CInit ==
    /\ _CONVERSATION_HISTORY = [t \in {"t2"} |-> RunTurns(PrefillTurns)]
    /\ creq = [r \in Slots |-> CIdle]
    /\ cresp = CIdle
    /\ nturn = 0

(* ---------------------------- chat, chat_stream -------------------------- *)
\* a mutation: the thread is registered before the configuration check
ChatBeginStoreFirst(r, kind, tin) ==
    /\ CFreeSlot(r) /\ nturn < MaxTurns
    /\ tin = "None" => ThreadIds \ DOMAIN _CONVERSATION_HISTORY # {}
    /\ nturn' = nturn + 1
    /\ LET tid == IF tin = "None"
                  THEN CHOOSE t \in ThreadIds \ DOMAIN _CONVERSATION_HISTORY : TRUE
                  ELSE tin
           rq == [CIdle EXCEPT !.kind = kind, !.tid = tid, !.turn = nturn + 1]
           fresh == tid \notin DOMAIN _CONVERSATION_HISTORY
       IN  IF MODEL = MISSING \/ ~aoai_ok
             THEN /\ CEnd(r, [rq EXCEPT !.status = 500])
                  /\ _CONVERSATION_HISTORY' =
                         IF fresh THEN Put(_CONVERSATION_HISTORY, tid, << >>)
                         ELSE _CONVERSATION_HISTORY
           ELSE IF fresh
             THEN /\ _CONVERSATION_HISTORY' = Put(_CONVERSATION_HISTORY, tid, << >>)
                  /\ CContinue(r, [rq EXCEPT !.pc = "lookup"])
           ELSE /\ _CONVERSATION_HISTORY' = [_CONVERSATION_HISTORY EXCEPT ![tid] =
                        Append(@, UserMsg(Question(nturn + 1)))]
                /\ CContinue(r, [rq EXCEPT !.pc = "call",
                                           !.status = IF kind = "stream" THEN 200 ELSE 0])
    /\ UNCHANGED << svars, env, mvars, tvars, xvars >>

\* lines 406-436 and 476-505 up to the first await: the configuration check,
\* the client, the thread id, and either the empty list and the agent lookup
\* (a thread id not in the store) or the user message and the call
chat_begin(r, kind, tin) ==
    /\ CFreeSlot(r) /\ nturn < MaxTurns
    /\ tin = "None" => ThreadIds \ DOMAIN _CONVERSATION_HISTORY # {}
    /\ nturn' = nturn + 1
    /\ LET tid == IF tin = "None"
                  THEN CHOOSE t \in ThreadIds \ DOMAIN _CONVERSATION_HISTORY : TRUE
                  ELSE tin
           rq == [CIdle EXCEPT !.kind = kind, !.tid = tid, !.turn = nturn + 1]
       IN  IF MODEL = MISSING \/ ~aoai_ok
             THEN /\ CEnd(r, [rq EXCEPT !.status = 500])
                  /\ UNCHANGED _CONVERSATION_HISTORY
           ELSE IF tid \notin DOMAIN _CONVERSATION_HISTORY
             THEN /\ _CONVERSATION_HISTORY' = Put(_CONVERSATION_HISTORY, tid, << >>)
                  /\ CContinue(r, [rq EXCEPT !.pc = "lookup"])
           ELSE /\ _CONVERSATION_HISTORY' = [_CONVERSATION_HISTORY EXCEPT ![tid] =
                        Append(@, UserMsg(Question(nturn + 1)))]
                /\ CContinue(r, [rq EXCEPT !.pc = "call",
                                           !.status = IF kind = "stream" THEN 200 ELSE 0])
    /\ UNCHANGED << svars, env, mvars, tvars, xvars >>

\* a mutation: a lookup that raises fails the turn
ChatLookupFailsTurn(r, out) ==
    /\ creq[r].pc = "lookup"
    /\ LET tid == creq[r].tid
           instructions == IF Truthy(out.content) THEN out.content.s ELSE FALLBACK
       IN  IF out.kind = "raise"
             THEN /\ CEnd(r, [creq[r] EXCEPT !.status = 500, !.agent = out])
                  /\ UNCHANGED _CONVERSATION_HISTORY
             ELSE /\ _CONVERSATION_HISTORY' = [_CONVERSATION_HISTORY EXCEPT ![tid] =
                          Append(Append(@, SystemMsg(instructions)),
                                 UserMsg(Question(creq[r].turn)))]
                  /\ CContinue(r, [creq[r] EXCEPT !.pc = "call", !.agent = out,
                               !.status = IF creq[r].kind = "stream" THEN 200 ELSE 0])
    /\ UNCHANGED << nturn, svars, env, mvars, tvars, xvars >>

\* lines 418-436 and 488-505: the lookup returns or raises, the system
\* message, the user message
chat_lookup(r, out) ==
    /\ creq[r].pc = "lookup"
    /\ LET tid == creq[r].tid
           instructions == IF out.kind = "ok" /\ Truthy(out.content)
                           THEN out.content.s ELSE FALLBACK
       IN  /\ _CONVERSATION_HISTORY' = [_CONVERSATION_HISTORY EXCEPT ![tid] =
                   Append(Append(@, SystemMsg(instructions)),
                          UserMsg(Question(creq[r].turn)))]
           /\ CContinue(r, [creq[r] EXCEPT !.pc = "call", !.agent = out,
                               !.status = IF creq[r].kind = "stream" THEN 200 ELSE 0])
    /\ UNCHANGED << nturn, svars, env, mvars, tvars, xvars >>

\* lines 440-445 and 511-517: the worker thread evaluates
\* _CONVERSATION_HISTORY[thread_id] and sends the request
chat_send(r) ==
    /\ creq[r].pc = "call"
    /\ CContinue(r, [creq[r] EXCEPT !.pc = "wait",
                                    !.sent = _CONVERSATION_HISTORY[creq[r].tid]])
    /\ UNCHANGED << _CONVERSATION_HISTORY, nturn, svars, env, mvars, tvars, xvars >>

\* lines 447-465: the completion arrives or the call raises
chat_reply(r, out) ==
    /\ creq[r].pc = "wait" /\ creq[r].kind = "chat"
    /\ LET tid == creq[r].tid
           reply == IF Truthy(out.content) THEN out.content.s ELSE << >>
       IN  IF out.kind = "raise"
             THEN /\ CEnd(r, [creq[r] EXCEPT !.status = 500])
                  /\ UNCHANGED _CONVERSATION_HISTORY
             ELSE /\ _CONVERSATION_HISTORY' = [_CONVERSATION_HISTORY EXCEPT ![tid] =
                          Prune(Append(@, AssistantMsg(reply)))]
                  /\ CEnd(r, [creq[r] EXCEPT !.status = 200, !.full_reply = reply])
    /\ UNCHANGED << nturn, svars, env, mvars, tvars, xvars >>

\* lines 509-519: the streaming call returns the token stream, or raises
stream_open(r, ok) ==
    /\ creq[r].pc = "wait" /\ creq[r].kind = "stream"
    /\ IF ok
         THEN CContinue(r, [creq[r] EXCEPT !.pc = "stream"])
         ELSE CEnd(r, [creq[r] EXCEPT !.events = Append(@, ErrorEvent)])
    /\ UNCHANGED << _CONVERSATION_HISTORY, nturn, svars, env, mvars, tvars, xvars >>

\* a mutation: full_reply holds the last delta only
StreamChunkKeepsLast(r) ==
    /\ creq[r].pc = "stream"
    /\ Len(creq[r].events) < MaxDeltas
    /\ LET c == Delta(Len(creq[r].events) + 1)
       IN  CContinue(r, [creq[r] EXCEPT !.full_reply = c,
                                        !.events = Append(@, TextEvent(c))])
    /\ UNCHANGED << _CONVERSATION_HISTORY, nturn, svars, env, mvars, tvars, xvars >>

\* lines 522-528: a chunk with content; chunks without content change nothing
stream_chunk(r) ==
    /\ creq[r].pc = "stream"
    /\ Len(creq[r].events) < MaxDeltas
    /\ LET c == Delta(Len(creq[r].events) + 1)
       IN  CContinue(r, [creq[r] EXCEPT !.full_reply = @ \o c,
                                        !.events = Append(@, TextEvent(c))])
    /\ UNCHANGED << _CONVERSATION_HISTORY, nturn, svars, env, mvars, tvars, xvars >>

\* lines 530-543: the stream is exhausted: the reply, the pruning, done
stream_end(r) ==
    /\ creq[r].pc = "stream"
    /\ _CONVERSATION_HISTORY' = [_CONVERSATION_HISTORY EXCEPT ![creq[r].tid] =
           Prune(Append(@, AssistantMsg(creq[r].full_reply)))]
    /\ CEnd(r, [creq[r] EXCEPT !.events = Append(@, DoneEvent)])
    /\ UNCHANGED << nturn, svars, env, mvars, tvars, xvars >>

\* a mutation: the failure is caught inside the loop, which goes on
StreamRaiseInLoop(r) ==
    /\ creq[r].pc = "stream"
    /\ Len(creq[r].events) < MaxDeltas
    /\ CContinue(r, [creq[r] EXCEPT !.events = Append(@, ErrorEvent)])
    /\ UNCHANGED << _CONVERSATION_HISTORY, nturn, svars, env, mvars, tvars, xvars >>

\* a mutation: the text received so far is appended before the error event
StreamRaiseAppends(r) ==
    /\ creq[r].pc = "stream"
    /\ _CONVERSATION_HISTORY' = [_CONVERSATION_HISTORY EXCEPT ![creq[r].tid] =
           Append(@, AssistantMsg(creq[r].full_reply))]
    /\ CEnd(r, [creq[r] EXCEPT !.events = Append(@, ErrorEvent)])
    /\ UNCHANGED << nturn, svars, env, mvars, tvars, xvars >>

\* a mutation: the failure is swallowed and the stream just ends
StreamRaiseSilent(r) ==
    /\ creq[r].pc = "stream"
    /\ CEnd(r, creq[r])
    /\ UNCHANGED << _CONVERSATION_HISTORY, nturn, svars, env, mvars, tvars, xvars >>

\* lines 545-546: the iteration raises
stream_raise(r) ==
    /\ creq[r].pc = "stream"
    /\ CEnd(r, [creq[r] EXCEPT !.events = Append(@, ErrorEvent)])
    /\ UNCHANGED << _CONVERSATION_HISTORY, nturn, svars, env, mvars, tvars, xvars >>

\* the client of a streaming call goes away: the generator is cancelled at
\* the await or yield it is suspended at, and nothing after it runs
disconnect(r) ==
    /\ creq[r].kind = "stream" /\ creq[r].pc \in {"call", "wait", "stream"}
    /\ CEnd(r, [creq[r] EXCEPT !.connected = FALSE])
    /\ UNCHANGED << _CONVERSATION_HISTORY, nturn, svars, env, mvars, tvars, xvars >>

(* ------------------------------- merges --------------------------------- *)
MInit ==
    /\ m_state = NewState
    /\ m_prev = NewState.fields
    /\ m_x = EmptyDict

\* one merge of an extraction result into the session
Merge(x) ==
    /\ m_x' = _extract_fields(x)
    /\ m_prev' = m_state.fields
    /\ m_state' = _apply_extracted(m_state, _extract_fields(x))
    /\ UNCHANGED << svars, env, cvars, tvars, xvars >>

(* ----------------------------- extraction ------------------------------- *)
\* the characters a channels value is made of here
ChanAlphabet == {"duan", "xin", "dian", "hua", " ", "x"}

RECURSIVE StringsUpTo(_)
StringsUpTo(n) ==
    IF n = 0 THEN { << >> }
    ELSE LET shorter == StringsUpTo(n - 1)
         IN  shorter \cup { Append(w, c) : w \in shorter, c \in ChanAlphabet }

\* obj.get("channels"): a string, null, a number, or no such key
ChannelValues ==
    { JStr(w) : w \in StringsUpTo(MaxChanLen) } \cup { None, JNum(5), Absent }

\* what the extraction call can do, over every channels value
ExtractInputs ==
    { XRaise, XNone, XNotJson, XNonObject }
        \cup { XObj([channels |-> ch, brand |-> JStr(<<"A">>)]) : ch \in ChannelValues }

XInit ==
    /\ x_in = XNone
    /\ x_out = EmptyDict

\* one run of _extract_fields with a client that could be constructed; the
\* function keeps no state, so a behaviour holds one run on a content
Extract(x) ==
    /\ x_in = XNone
    /\ x_in' = x
    /\ x_out' = _extract_fields(x)
    /\ UNCHANGED << svars, env, cvars, mvars, tvars >>

(* --------------------------- speech synthesis --------------------------- *)
\* audio a provider returns
Audio == { <<"wav">> }

\* what client.post and raise_for_status can do: a transport error, a
\* status that is not 2xx, or a response with content
PostOutcomes ==
    { [kind |-> "HTTPError", content |-> << >>],
      [kind |-> "HTTPStatusError", content |-> << >>] }
        \cup { [kind |-> "ok", content |-> a] : a \in Audio }

\* COSYVOICE_ENABLED as CosyVoiceClient.__init__ reads it
Enabled == BOOLEAN

TIdle ==
    [ op |-> "none", pc |-> "idle", status |-> 0, raised |-> "none",
      reference_audio |-> None, mode |-> "none", audio |-> None ]

TFreeSlot(r) ==
    /\ treq[r].pc = "idle"
    /\ \A q \in Slots : q < r => treq[q].pc # "idle"

\* the response is sent: the slot is free again
TReply(r, rq, code) ==
    /\ treq' = [treq EXCEPT ![r] = TIdle]
    /\ tresp' = [rq EXCEPT !.pc = "done", !.status = code]

\* `except Exception` of the endpoints: HTTPException(500)
TRaise(r, rq, where) == TReply(r, [rq EXCEPT !.raised = where], 500)

TContinue(r, rq) ==
    /\ treq' = [treq EXCEPT ![r] = rq]
    /\ UNCHANGED tresp

TInit ==
    /\ _client = None
    /\ treq = [r \in Slots |-> TIdle]
    /\ tresp = TIdle
    /\ ntts = 0

\* get_cosyvoice_client: the singleton, constructed at first use
get_cosyvoice_client(e) ==
    /\ _client = None => _client' = [t |-> "client", s |-> << >>, n |-> IF e THEN 1 ELSE 0]
    /\ _client # None => UNCHANGED _client

\* CosyVoiceClient.synthesize up to its client.post: it raises when the
\* client is not enabled, else picks the mode from the truth of reference_audio
synthesize(r, rq) ==
    IF _client'.n = 0
      THEN TRaise(r, rq, "synthesize")
      ELSE TContinue(r, [rq EXCEPT !.pc = "post",
                            !.mode = IF Truthy(rq.reference_audio)
                                     THEN "clone" ELSE "speaker"])

\* lines 581-588: the client, then synthesize with a preset speaker
text_to_speech(r, e) ==
    /\ TFreeSlot(r) /\ ntts < MaxSynth
    /\ ntts' = ntts + 1
    /\ get_cosyvoice_client(e)
    /\ synthesize(r, [TIdle EXCEPT !.op = "tts"])
    /\ UNCHANGED << svars, env, cvars, mvars, xvars >>

\* lines 618-622: the client, then the read of the reference audio
text_to_speech_clone(r, e) ==
    /\ TFreeSlot(r) /\ ntts < MaxSynth
    /\ ntts' = ntts + 1
    /\ get_cosyvoice_client(e)
    /\ TContinue(r, [TIdle EXCEPT !.op = "clone", !.pc = "read"])
    /\ UNCHANGED << svars, env, cvars, mvars, xvars >>

\* lines 622-629: the reference audio is read, then synthesize with it
clone_read(r, bytes) ==
    /\ treq[r].pc = "read"
    /\ UNCHANGED _client
    /\ synthesize(r, [treq[r] EXCEPT !.reference_audio = JBytes(bytes)])
    /\ UNCHANGED << ntts, svars, env, cvars, mvars, xvars >>

\* cosyvoice_client.py lines 75-87 and main.py lines 590-599 / 631-640: the
\* post returns and the audio is sent, or it raises and the endpoint
\* answers 500
synthesize_post(r, out) ==
    /\ treq[r].pc = "post"
    /\ IF out.kind = "ok"
         THEN TReply(r, [treq[r] EXCEPT !.audio = JBytes(out.content)], 200)
         ELSE TRaise(r, treq[r], "post")
    /\ UNCHANGED << _client, ntts, svars, env, cvars, mvars, xvars >>

(* --------------------------- specification ------------------------------ *)

EnvInit ==
    /\ MODEL \in {"gpt-4o", MISSING}
    /\ aoai_ok \in BOOLEAN

Init == EnvInit /\ SInit /\ CInit /\ MInit /\ TInit /\ XInit

Next ==
    \/ \E r \in Slots, seed \in Seeds, x \in ExtractResponses :
           onboard_session_start(r, seed, x)
    \/ \E r \in Slots, out \in ReplyOutcomes : start_reply(r, out)
    \/ \E r \in Slots, sid \in SessionIds, text \in Messages :
           onboard_session_message(r, sid, text)
    \/ \E r \in Slots, x \in ExtractResponses : message_extracted(r, x)
    \/ \E r \in Slots, out \in ReplyOutcomes : message_reply(r, out)
    \/ \E r \in Slots, sid \in SessionIds : upload_voice_template(r, sid)
    \/ \E r \in Slots, bytes \in Uploads : voice_read(r, bytes)
    \/ \E r \in Slots, sid \in SessionIds : onboard_session_finalize(r, sid)
    \/ \E r \in Slots, out \in PromptOutcomes : finalize_prompt(r, out)
    \/ \E r \in Slots, ok \in BOOLEAN : finalize_create(r, ok)
    \/ \E r \in Slots : finalize_return(r)

\* the onboarding endpoints
Spec == Init /\ [][Next]_vars

ChatNext ==
    \/ \E r \in Slots, kind \in {"chat", "stream"}, tin \in ThreadInputs :
           chat_begin(r, kind, tin)
    \/ \E r \in Slots, out \in LookupOutcomes : chat_lookup(r, out)
    \/ \E r \in Slots : chat_send(r)
    \/ \E r \in Slots, out \in ChatOutcomes : chat_reply(r, out)
    \/ \E r \in Slots, ok \in BOOLEAN : stream_open(r, ok)
    \/ \E r \in Slots : stream_chunk(r)
    \/ \E r \in Slots : stream_end(r)
    \/ \E r \in Slots : stream_raise(r)
    \/ \E r \in Slots : disconnect(r)

\* the chat endpoints
ChatSpec == Init /\ [][ChatNext]_vars

MergeNext == \E x \in ExtractResponses : Merge(x)

\* _apply_extracted on its own
MergeSpec == Init /\ [][MergeNext]_vars

ExtractNext == \E x \in ExtractInputs : Extract(x)

\* _extract_fields on its own
ExtractSpec == Init /\ [][ExtractNext]_vars

TtsNext ==
    \/ \E r \in Slots, e \in Enabled : text_to_speech(r, e)
    \/ \E r \in Slots, e \in Enabled : text_to_speech_clone(r, e)
    \/ \E r \in Slots, bytes \in Uploads : clone_read(r, bytes)
    \/ \E r \in Slots, out \in PostOutcomes : synthesize_post(r, out)

\* the synthesis endpoints
TtsSpec == Init /\ [][TtsNext]_vars

\* the process as it starts when AZURE_OPENAI_DEPLOYMENT is not set
MisconfiguredInit == Init /\ MODEL = MISSING

\* the requests that check the configuration, each up to its first await
MisconfiguredNext ==
    \/ \E r \in Slots, seed \in Seeds, x \in ExtractResponses :
           onboard_session_start(r, seed, x)
    \/ \E r \in Slots, sid \in SessionIds, text \in Messages :
           onboard_session_message(r, sid, text)
    \/ \E r \in Slots, sid \in SessionIds : onboard_session_finalize(r, sid)
    \/ \E r \in Slots, kind \in {"chat", "stream"}, tin \in ThreadInputs :
           chat_begin(r, kind, tin)

\* the endpoints of a process without model configuration
MisconfiguredSpec == MisconfiguredInit /\ [][MisconfiguredNext]_vars


(* ------------------------------- claims --------------------------------- *)
Pos(k) == CHOOSE i \in 1..Len(_FIELD_ORDER) : _FIELD_ORDER[i] = k

\* C1: in every state of every session, missing holds exactly the names of
\* the fields that are unset, each once, in _FIELD_ORDER order
C1_MissingMatchesFields ==
    \A sid \in DOMAIN _SESSIONS :
        LET st == _SESSIONS[sid] IN
        /\ \A i \in 1..Len(st.missing) :
               st.missing[i] \in FieldNames /\ st.fields[st.missing[i]] = None
        /\ \A k \in FieldNames :
               st.fields[k] = None => \E i \in 1..Len(st.missing) : st.missing[i] = k
        /\ \A i, j \in 1..Len(st.missing) :
               i < j => Pos(st.missing[i]) < Pos(st.missing[j])

\* a message call has merged a result that set some fields and left others unset
C1_Witness ==
    /\ resp.op = "message" /\ resp.status = 200
    /\ \E sid \in DOMAIN _SESSIONS :
           /\ _SESSIONS[sid].fields["brand"] # None
           /\ _SESSIONS[sid].fields["tone"] # None
           /\ Len(_SESSIONS[sid].missing) = 7

\* C2: a finalize call made after a finalize of the same id succeeded stops
\* at the lookup with 404, so it never reaches the agent creation
C2_SecondFinalizeNotFound ==
    /\ \A r \in Slots : ~(req[r].op = "finalize" /\ req[r].afterFin)
    /\ (resp.op = "finalize" /\ resp.afterFin) => resp.status = 404

\* C3: a message call made after a finalize of the same id succeeded stops
\* at the lookup with 404, before it appends to the history
C3_MessageAfterFinalizeNotFound ==
    /\ \A r \in Slots : ~(req[r].op = "message" /\ req[r].afterFin)
    /\ (resp.op = "message" /\ resp.afterFin) => resp.status = 404

IsTerminal(e) == e.type \in {"done", "error"}

\* C4: in the events of a turn nothing follows a terminal event, and no text
\* event follows an audio event
EventsOrdered(ev) ==
    \A i, j \in 1..Len(ev) :
        i < j => /\ ~IsTerminal(ev[i])
                 /\ ev[i].type = "audio" => ev[j].type # "text"

C4_EventOrder ==
    /\ EventsOrdered(cresp.events)
    /\ \A r \in Slots : EventsOrdered(creq[r].events)

\* a streaming turn has ended with two text events and then done
C4_Witness ==
    /\ cresp.kind = "stream" /\ Len(cresp.events) = 3
    /\ cresp.events[1].type = "text" /\ cresp.events[2].type = "text"
    /\ cresp.events[3].type = "done"

Terminals(ev) == Cardinality({ i \in 1..Len(ev) : IsTerminal(ev[i]) })

\* C5 as stated: every streaming call whose client stayed connected has
\* emitted exactly one terminal event when it ends
C5_AlwaysOneTerminal ==
    (cresp.kind = "stream" /\ cresp.connected) => Terminals(cresp.events) = 1

\* C5 as amended: a streaming call that got past the configuration check and
\* the client construction, and whose client stayed connected, ends with
\* exactly one terminal event and emits none before it ends; a call stopped
\* by the check or the client ends with status 500 and no event
C5_OneTerminalOnceStreaming ==
    /\ (cresp.kind = "stream" /\ cresp.connected /\ cresp.status = 200)
           => Terminals(cresp.events) = 1
    /\ (cresp.kind = "stream" /\ cresp.status # 200)
           => /\ cresp.status = 500 /\ cresp.events = << >>
              /\ (MODEL = MISSING \/ ~aoai_ok)
    /\ \A r \in Slots : Terminals(creq[r].events) = 0

\* a streaming call has failed in the middle of the token stream
C5_Witness ==
    /\ cresp.kind = "stream" /\ cresp.connected /\ cresp.status = 200
    /\ Len(cresp.events) = 2
    /\ cresp.events[1].type = "text" /\ cresp.events[2].type = "error"

\* C6: while a turn is in progress on a thread, a later turn on the same
\* thread has emitted nothing, and the messages sent to the generation
\* service for the earlier turn hold no user message of a later turn
C6_TurnsSerialized ==
    \A r \in Slots :
        creq[r].pc # "idle" =>
            /\ \A q \in Slots :
                   (creq[q].pc # "idle" /\ creq[q].tid = creq[r].tid
                        /\ creq[q].turn > creq[r].turn)
                       => creq[q].events = << >>
            /\ (cresp.tid = creq[r].tid /\ cresp.turn > creq[r].turn)
                   => /\ cresp.events = << >>
                      /\ ~(cresp.kind = "chat" /\ cresp.status = 200)
            /\ \A i \in 1..Len(creq[r].sent) :
                   \A n \in (creq[r].turn + 1)..MaxTurns :
                       creq[r].sent[i] # UserMsg(Question(n))

InProgress(tid) == \E r \in Slots : creq[r].pc # "idle" /\ creq[r].tid = tid

\* C7: a thread on which no turn is in progress holds at most 21 entries
C7_AtRestWithinCap ==
    \A tid \in DOMAIN _CONVERSATION_HISTORY :
        ~InProgress(tid) => Len(_CONVERSATION_HISTORY[tid]) <= 21

\* the turn of slot r ends in this step with its reply appended
Completes(r) ==
    /\ creq[r].pc \in {"wait", "stream"} /\ creq'[r].pc = "idle"
    /\ cresp'.turn = creq[r].turn
    /\ \/ cresp'.kind = "chat" /\ cresp'.status = 200
       \/ /\ cresp'.events # << >>
          /\ cresp'.events[Len(cresp'.events)].type = "done"

\* C8: when the reply of a completed turn makes the thread longer than 21,
\* the thread becomes 21 entries: its entry 0 as it was, then the newest 19
\* earlier entries in their order, then the reply
C8_PruneKeepsSystemAndNewest ==
    [][ \A r \in Slots :
          LET h == _CONVERSATION_HISTORY[creq[r].tid]
              h2 == _CONVERSATION_HISTORY'[creq[r].tid]
          IN  (Completes(r) /\ Len(h) + 1 > 21) =>
                  /\ Len(h2) = 21
                  /\ h2[1] = h[1]
                  /\ \A i \in 2..20 : h2[i] = h[Len(h) - 20 + i]
                  /\ h2[21] = AssistantMsg(cresp'.full_reply) ]_vars

\* a completed turn on the preloaded thread has pushed old entries out
C8_Witness ==
    /\ cresp.tid = "t2" /\ cresp.connected
    /\ cresp.status = 200 /\ (cresp.kind = "stream" => Terminals(cresp.events) = 1)
    /\ Len(_CONVERSATION_HISTORY["t2"]) = 21
    /\ _CONVERSATION_HISTORY["t2"][1] = SystemMsg(INSTRUCTIONS)
    /\ _CONVERSATION_HISTORY["t2"][2] # RunTurns(PrefillTurns)[2]
    /\ _CONVERSATION_HISTORY["t2"][21] = AssistantMsg(cresp.full_reply)

\* C9: the first message of every thread that has messages is the system one
C9_FirstIsSystem ==
    \A tid \in DOMAIN _CONVERSATION_HISTORY :
        Len(_CONVERSATION_HISTORY[tid]) >= 1
            => _CONVERSATION_HISTORY[tid][1].role = "system"

\* C10: after a merge, a field for which the result supplied a non-empty
\* value holds exactly that value, and a field for which it supplied null,
\* an empty value or nothing holds what it held before
C10_MergeOverwrites ==
    \A k \in FieldNames :
        /\ Truthy(m_x[k]) => m_state.fields[k] = m_x[k]
        /\ m_x[k] \in {None, JStr(<< >>), Absent} => m_state.fields[k] = m_prev[k]

\* brand held "A" and the merged result supplied "B"
C10_Witness ==
    /\ m_prev["brand"] = JStr(<<"A">>)
    /\ m_x["brand"] = JStr(<<"B">>)
    /\ m_state.fields["brand"] = JStr(<<"B">>)

HasSmsToken(c) == Contains(c, SMS)
HasPhoneToken(c) == Contains(c, DIAN)

\* C11: when the extraction call returns a JSON object, a channels string
\* with an SMS token and a phone token comes back as the 'both' value, one
\* with only an SMS token as the 'sms' value, one with only a phone token as
\* the 'phone' value, and every other channels value comes back as it was
C11_ChannelNormalization ==
    x_in.kind = "object" =>
        LET ch == x_in.obj["channels"]
            out == x_out["channels"]
        IN  IF ch.t = "str" /\ HasSmsToken(ch.s) /\ HasPhoneToken(ch.s)
              THEN out = JStr(BOTH)
            ELSE IF ch.t = "str" /\ HasSmsToken(ch.s)
              THEN out = JStr(SMS)
            ELSE IF ch.t = "str" /\ HasPhoneToken(ch.s)
              THEN out = JStr(PHONE)
            ELSE out = ch

\* a channels string naming the phone and then SMS came back as 'both'
C11_Witness ==
    /\ x_in.kind = "object"
    /\ x_in.obj["channels"] = JStr(<<"dian", "duan", "xin">>)
    /\ x_out["channels"] = JStr(BOTH)

\* C12: a synthesis request never ends with an error: whatever the primary
\* provider does, the caller gets a result (bytes, or none) and goes on
C12_SynthesisNeverRaises ==
    tresp.op \in {"tts", "clone"} => tresp.status = 200 /\ tresp.raised = "none"

\* C13: no start or message call ends because _extract_fields raised, and a
\* start call with seed text that passed the configuration check has stored
\* its session
C13_ExtractionFailsSoft ==
    /\ resp.raised # "_extract_fields"
    /\ (resp.op = "start" /\ Truthy(resp.arg) /\ MODEL # MISSING)
           => resp.sid \in DOMAIN _SESSIONS

\* C14: a finalize call that returns an agent reports a voice template
\* exactly when the metadata of the agent it created holds the encoded one
C14_HasVoiceTemplateMatchesMetadata ==
    (resp.op = "finalize" /\ resp.status = 200) =>
        (resp.hasvt <=> Has(assistants[resp.agent], "voice_template_b64"))

\* C15: _build_profile_summary never raises on the fields of a session, and
\* the text it returns has a non-empty value after every label
C15_SummaryTotal ==
    /\ resp.raised # "_build_profile_summary"
    /\ \A r \in Slots :
           req[r].pc = "finalize_prompt" =>
               \A k \in FieldNames : req[r].summary[k] # << >>

\* C16: a finalize call on a stored session whose missing list is not empty
\* returns an agent id unless the configuration is absent or a service call
\* raises: it is never turned down for another reason
C16_FinalizeAcceptedWhileCollecting ==
    (/\ resp.op = "finalize"
     /\ resp.sid \in DOMAIN _SESSIONS
     /\ resp.raised # "not_found"
     /\ _SESSIONS[resp.sid].missing # << >>) =>
        \/ /\ resp.status = 200
           /\ resp.agent \in 1..Len(assistants)
        \/ /\ resp.status = 500
           /\ resp.raised \in {"_ensure_model_configured", "get_aoai_client",
                               "create", "assistants.create"}

\* C17: when a message call returns, the returned reply and the last history
\* entry are the same text and hold no sentinel, done is true when missing
\* is empty, and done is false only when missing is not empty
C17_SentinelOverrides ==
    [][ \A r \in Slots :
          (req[r].pc = "message_reply" /\ req'[r].pc = "idle" /\ resp'.status = 200) =>
              LET st == _SESSIONS'[req[r].sid]
                  last == st.history[Len(st.history)]
              IN  /\ ~Contains(resp'.reply.s, Sentinel)
                  /\ last = [role |-> "assistant", text |-> resp'.reply]
                  /\ (st.missing = << >>) => resp'.done
                  /\ ~resp'.done => st.missing # << >> ]_vars

\* C18: when a start call returns, the session it stored has, without seed
\* text, every field unset, missing equal to the schema order and the
\* greeting as its only history entry (after one service call); with seed
\* text, the history [user: seed, assistant: reply] and missing recomputed
\* from the merged fields (after the extraction call and the reply call)
C18_StartStoresSession ==
    [][ \A r \in Slots :
          (req[r].pc = "start_reply" /\ req'[r].pc = "idle" /\ resp'.status = 200) =>
              LET st == _SESSIONS'[req[r].sid]
                  seed == req[r].arg
                  greeting == [role |-> "assistant", text |-> resp'.reply]
              IN  IF Truthy(seed)
                    THEN /\ st.history = <<[role |-> "user", text |-> seed], greeting>>
                         /\ st.missing = MissingOf(st.fields)
                         /\ resp'.calls = 2
                    ELSE /\ st.history = <<greeting>>
                         /\ st.fields = [k \in FieldNames |-> None]
                         /\ st.missing = _FIELD_ORDER
                         /\ resp'.calls = 1 ]_vars

\* a start call with seed text has returned and the brand is set from the seed
C18_Witness ==
    /\ resp.op = "start" /\ resp.status = 200 /\ Truthy(resp.arg)
    /\ resp.sid \in DOMAIN _SESSIONS
    /\ _SESSIONS[resp.sid].fields["brand"] = JStr(<<"A">>)
    /\ Len(_SESSIONS[resp.sid].history) = 2

\* C19: an upload for a stored session is accepted, and when its bytes have
\* been read the session's voice_template is those bytes and nothing else in
\* the store has changed
C19_VoiceUploadFrame ==
    [][ \A r \in Slots :
          /\ (req[r].pc = "voice_read" /\ req'[r].pc = "idle") =>
                 /\ resp'.status = 200 /\ resp'.arg.t = "bytes"
                 /\ _SESSIONS' = [_SESSIONS EXCEPT
                                     ![req[r].sid].voice_template = resp'.arg]
          /\ (req[r].pc = "idle" /\ req'[r].op = "voice") =>
                 /\ req'[r].sid \in DOMAIN _SESSIONS
                 /\ req'[r].pc = "voice_read"
          /\ (nreq' # nreq /\ req' = req /\ resp'.op = "voice") =>
                 resp'.sid \notin DOMAIN _SESSIONS ]_vars

\* an upload has been stored on a session that still misses fields
C19_Witness ==
    /\ resp.op = "voice" /\ resp.status = 200
    /\ resp.sid \in DOMAIN _SESSIONS
    /\ _SESSIONS[resp.sid].voice_template = resp.arg
    /\ _SESSIONS[resp.sid].missing # << >>
    /\ _SESSIONS[resp.sid].history # << >>

NeverCreated(rq) ==
    rq.op \in {"message", "voice", "finalize"} /\ rq.sid \notin DOMAIN _SESSIONS

\* C20 as stated: a message, upload or finalize call with an id that was
\* never created ends with 404 after no service call
C20_UnknownIdNotFound ==
    NeverCreated(resp) => resp.status = 404 /\ resp.calls = 0

\* C20 as amended: such a call ends at once, with 404 (for message and
\* finalize: with 500 when the model configuration is absent), makes no
\* service call and leaves the sessions and the agents as they were
C20_UnknownIdRejected ==
    [][ nreq' # nreq =>
          /\ \A r \in Slots :
                 (req[r].pc = "idle" /\ req'[r].pc # "idle"
                      /\ req'[r].op \in {"message", "voice", "finalize"})
                     => req'[r].sid \in DOMAIN _SESSIONS
          /\ (req' = req /\ resp'.op \in {"message", "voice", "finalize"}
                  /\ resp'.sid \notin DOMAIN _SESSIONS) =>
                 /\ resp'.calls = 0
                 /\ resp'.status =
                        IF resp'.op # "voice" /\ MODEL = MISSING THEN 500 ELSE 404
                 /\ UNCHANGED << _SESSIONS, assistants >> ]_vars

\* a finalize call with an id that names no session was answered 404
C20_Witness ==
    /\ resp.op = "finalize" /\ resp.sid \notin DOMAIN _SESSIONS
    /\ resp.status = 404 /\ resp.calls = 0
    /\ MODEL # MISSING

\* the turn of slot r, a streaming turn whose client is connected, ends in this step
StreamEnds(r) ==
    /\ creq[r].kind = "stream" /\ creq[r].pc \in {"wait", "stream"}
    /\ creq'[r].pc = "idle" /\ cresp'.turn = creq[r].turn /\ cresp'.connected

LastType(ev) == IF ev = << >> THEN "none" ELSE ev[Len(ev)].type

\* C21: a streaming turn that ends without done (its token stream failed
\* when opened or at a later token) ends with an error event, has emitted no
\* done event, and leaves every thread as it was: no assistant message is
\* appended
C21_FailedStreamEndsWithError ==
    [][ \A r \in Slots :
          (StreamEnds(r) /\ LastType(cresp'.events) # "done") =>
              /\ LastType(cresp'.events) = "error"
              /\ \A i \in 1..Len(cresp'.events) : cresp'.events[i].type # "done"
              /\ UNCHANGED _CONVERSATION_HISTORY ]_vars

\* a stream failed after one delta and the thread still ends with the
\* user message of that turn
C21_Witness ==
    /\ cresp.kind = "stream" /\ cresp.connected
    /\ Len(cresp.events) = 2 /\ cresp.events[2].type = "error"
    /\ cresp.tid \in DOMAIN _CONVERSATION_HISTORY
    /\ LET h == _CONVERSATION_HISTORY[cresp.tid]
       IN  h # << >> /\ h[Len(h)] = UserMsg(Question(cresp.turn))

\* the service calls a request has made when its reply or prompt call raises
CallsWhenGenerationFails(rq) ==
    CASE rq.op = "start" -> IF Truthy(rq.arg) THEN 2 ELSE 1
      [] rq.op = "message" -> 2
      [] OTHER -> 1

\* C22: a request whose reply or prompt generation call raised ends with an
\* error response after exactly the calls of one attempt: the failed call
\* was made once
C22_GenerationFailureSurfacesOnce ==
    resp.raised = "create" =>
        /\ resp.status = 500
        /\ resp.op \in {"start", "message", "finalize"}
        /\ resp.calls = CallsWhenGenerationFails(resp)

\* the reply call of a message request raised
C22_Witness ==
    /\ resp.op = "message" /\ resp.raised = "create"
    /\ resp.status = 500 /\ resp.calls = 2

\* C23: without model configuration every start, message, finalize, chat and
\* streaming chat request ends in its first step with status 500 and leaves
\* the sessions, the agents and the threads as they were
C23_MisconfiguredFailsFirst ==
    [][ MODEL = MISSING =>
          /\ nreq' # nreq =>
                 /\ req' = req
                 /\ resp'.status = 500 /\ resp'.raised = "_ensure_model_configured"
                 /\ resp'.calls = 0
                 /\ UNCHANGED << _SESSIONS, assistants >>
          /\ nturn' # nturn =>
                 /\ creq' = creq
                 /\ cresp'.status = 500 /\ cresp'.events = << >>
                 /\ UNCHANGED _CONVERSATION_HISTORY ]_vars

\* a streaming chat request on the stored thread and a start request have
\* both been turned down
C23_Witness ==
    /\ MODEL = MISSING
    /\ cresp.kind = "stream" /\ cresp.tid = "t2" /\ cresp.status = 500
    /\ resp.op = "start" /\ resp.status = 500
    /\ _SESSIONS = << >>

\* C24: when the agent lookup of a first turn comes back, the thread gains
\* one system message, with the agent's instructions or, when the lookup
\* raised or the instructions are empty, with the fallback text, then the
\* user message, and the turn goes on to the generation call
C24_FirstTurnSeedsThread ==
    [][ \A r \in Slots :
          creq[r].pc = "lookup" =>
              \/ creq'[r] = creq[r]
              \/ LET out == creq'[r].agent
                     seeded == IF out.kind = "ok" /\ out.content.t = "str"
                                  /\ out.content.s # << >>
                               THEN out.content.s ELSE FALLBACK
                 IN  /\ creq'[r].pc = "call"
                     /\ out.kind \in {"ok", "raise"}
                     /\ _CONVERSATION_HISTORY'[creq[r].tid] =
                            _CONVERSATION_HISTORY[creq[r].tid]
                                \o << SystemMsg(seeded), UserMsg(Question(creq[r].turn)) >> ]_vars

\* a first turn whose lookup raised has reached the generation call on a
\* thread seeded with the fallback text
C24_Witness ==
    \E r \in Slots :
        /\ creq[r].pc = "wait" /\ creq[r].agent.kind = "raise"
        /\ creq[r].sent = << SystemMsg(FALLBACK), UserMsg(Question(creq[r].turn)) >>

\* the text of the text events of a turn, in emission order
RECURSIVE TextOf(_)
TextOf(ev) ==
    IF ev = << >> THEN << >>
    ELSE (IF Head(ev).type = "text" THEN Head(ev).content ELSE << >>) \o TextOf(Tail(ev))

\* C25: in the step in which a streaming turn emits done, the thread becomes
\* the pruning of the thread with the assistant message appended, that
\* message holds the text of the turn's text events in order, and it is the
\* thread's last entry
C25_ReplyIsConcatenation ==
    [][ \A r \in Slots :
          (StreamEnds(r) /\ LastType(cresp'.events) = "done") =>
              LET reply == AssistantMsg(TextOf(cresp'.events))
                  h == _CONVERSATION_HISTORY[creq[r].tid]
                  h2 == _CONVERSATION_HISTORY'[creq[r].tid]
              IN  /\ h2[Len(h2)] = reply
                  /\ Len(h2) <= HistoryCap
                  /\ IF Len(h) + 1 > HistoryCap
                       THEN h2 = <<h[1]>> \o SubSeq(Append(h, reply), Len(h) - KeepLast + 2, Len(h) + 1)
                       ELSE h2 = Append(h, reply) ]_vars

\* a streaming turn has ended with done after two deltas and its reply is
\* the last entry of the thread
C25_Witness ==
    /\ cresp.kind = "stream" /\ LastType(cresp.events) = "done"
    /\ Len(cresp.events) = 3
    /\ cresp.tid \in DOMAIN _CONVERSATION_HISTORY
    /\ LET h == _CONVERSATION_HISTORY[cresp.tid]
       IN  h # << >> /\ h[Len(h)] = AssistantMsg(Delta(1) \o Delta(2))

\* C26: in every step every session keeps each history entry it had, at its
\* position and with its role and text: the history only grows at its end
C26_HistoryAppendOnly ==
    [][ \A sid \in DOMAIN _SESSIONS :
          LET h == _SESSIONS[sid].history
              h2 == _SESSIONS'[sid].history
          IN  /\ Len(h2) >= Len(h)
              /\ \A i \in 1..Len(h) : h2[i] = h[i] ]_vars

\* a message call has stripped the sentinel from the reply it appended
\* after the greeting and the user message
C26_Witness ==
    /\ resp.op = "message" /\ resp.status = 200 /\ resp.done
    /\ resp.reply = JStr(<<"o", "k">>)
    /\ LET h == _SESSIONS[resp.sid].history
       IN  /\ Len(h) >= 3
           /\ h[Len(h)] = [role |-> "assistant", text |-> JStr(<<"o", "k">>)]
           /\ h[Len(h) - 1].role = "user"

\* the names a merge has newly set
NewlySet(prev, x) == { k \in FieldNames : ~Truthy(prev[k]) /\ Truthy(x[k]) }

\* C27: after a merge the keys of fields are exactly the schema, a field
\* for which the result supplied no non-empty value holds what it held, and
\* missing is the missing of before without the newly set names, in order
C27_MergeFrame ==
    /\ DOMAIN m_state.fields = FieldNames
    /\ \A k \in FieldNames : ~Truthy(m_x[k]) => m_state.fields[k] = m_prev[k]
    /\ m_state.missing =
           SelectSeq(MissingOf(m_prev), LAMBDA k : k \notin NewlySet(m_prev, m_x))

\* a result with a brand and a key outside the schema was merged into a
\* session with no field set: missing lost brand from its front
C27_Witness ==
    /\ m_x["nickname"] = JStr(<<"Z">>) /\ m_x["brand"] = JStr(<<"B">>)
    /\ m_prev["brand"] = None
    /\ m_state.fields["brand"] = JStr(<<"B">>)
    /\ m_state.missing = Tail(_FIELD_ORDER)

\* the states in which a request is suspended on a service call
AwaitingCall == {"start_reply", "message_extract", "message_reply", "finalize_prompt"}

\* C28: a request completes a service call only in a step taken from a state
\* in which it was suspended on that call, so that other requests could be
\* scheduled while the call was outstanding
C28_CallsAreSuspensionPoints ==
    [][ \A r \in Slots :
          /\ (req'[r].pc # "idle" /\ req'[r].calls > req[r].calls)
                 => req[r].pc \in AwaitingCall
          /\ (req[r].pc = "idle" /\ req' = req /\ nreq' # nreq)
                 => resp'.calls = 0 ]_vars

\* C29: when a streaming turn ended with its client gone after some text
\* deltas, and no turn is in progress on the thread, the thread ends with an
\* assistant message
C29_ReplyAppendedAfterDisconnect ==
    (/\ cresp.kind = "stream" /\ ~cresp.connected
     /\ cresp.events # << >>
     /\ ~InProgress(cresp.tid)) =>
        LET h == _CONVERSATION_HISTORY[cresp.tid]
        IN  h # << >> /\ h[Len(h)].role = "assistant"

\* C30: in every step every session keeps each field it had set, and its
\* missing list gains no name and does not grow
C30_FieldsNeverUnset ==
    [][ \A sid \in DOMAIN _SESSIONS :
          LET st == _SESSIONS[sid]
              st2 == _SESSIONS'[sid]
          IN  /\ \A k \in FieldNames : Truthy(st.fields[k]) => Truthy(st2.fields[k])
              /\ \A i \in 1..Len(st2.missing) :
                     \E j \in 1..Len(st.missing) : st.missing[j] = st2.missing[i]
              /\ Len(st2.missing) <= Len(st.missing) ]_vars

\* a message call merged a result with a null brand into a session whose
\* brand was set: the brand is still set
C30_Witness ==
    /\ resp.op = "message" /\ resp.status = 200
    /\ _SESSIONS[resp.sid].fields["brand"] = JStr(<<"A">>)
    /\ _SESSIONS[resp.sid].fields["tone"] = JNum(5)
    /\ Len(_SESSIONS[resp.sid].history) = 4

\* the voice template values a session can hold
VoiceValues == {None} \cup { JBytes(b) : b \in Uploads }

\* C31: a finalize call that returns an agent worked on one snapshot of the
\* session: the summary it sent and the agent name are those of the profile
\* it returns, and one voice template value accounts for both the metadata
\* of the agent and the returned hasVoiceTemplate
C31_FinalizeUsesOneSnapshot ==
    [][ \A r \in Slots :
          (req[r].pc = "finalize_return" /\ req'[r].pc = "idle") =>
              /\ Summarizable(resp'.profile)
              /\ req[r].summary = _build_profile_summary(resp'.profile)
              /\ assistants[req[r].agent].name =
                     (IF Truthy(resp'.profile["brand"]) THEN resp'.profile["brand"]
                      ELSE JStr(<<"Sales Agent">>))
              /\ \E v \in VoiceValues :
                     /\ req[r].meta = (IF Truthy(v) THEN B64(v.s) ELSE Absent)
                     /\ resp'.hasvt = (v.t # "null") ]_vars

\* C32: a start request that awaits its greeting has its session in the
\* store, and a start call whose greeting call raised ended with an error
\* response, its session is in the store and holds no assistant entry
C32_SessionStoredBeforeGreeting ==
    /\ \A r \in Slots :
           req[r].pc = "start_reply" => req[r].sid \in DOMAIN _SESSIONS
    /\ (resp.op = "start" /\ resp.raised = "create") =>
           /\ resp.status = 500
           /\ resp.sid \in DOMAIN _SESSIONS
           /\ \A i \in 1..Len(_SESSIONS[resp.sid].history) :
                  _SESSIONS[resp.sid].history[i].role # "assistant"

\* the greeting call of a seeded start raised: the session is stored with
\* the seed as its only history entry and the brand of the seed merged
C32_Witness ==
    /\ resp.op = "start" /\ resp.raised = "create" /\ resp.status = 500
    /\ resp.sid \in DOMAIN _SESSIONS
    /\ _SESSIONS[resp.sid].history = <<[role |-> "user", text |-> JStr(<<"s">>)]>>
    /\ _SESSIONS[resp.sid].fields["brand"] = JStr(<<"A">>)

\* C33: the step in which the reply call of a message request raises ends
\* the request with an error response and changes no session: the user
\* entry of the request is still in the history and the merged fields stay
C33_FailedMessageNotRolledBack ==
    [][ \A r \in Slots :
          (req[r].pc = "message_reply" /\ req'[r].pc = "idle"
               /\ resp'.raised = "create") =>
              /\ resp'.status = 500
              /\ UNCHANGED _SESSIONS
              /\ \E i \in 1..Len(_SESSIONS'[req[r].sid].history) :
                     _SESSIONS'[req[r].sid].history[i] =
                         [role |-> "user", text |-> req[r].arg] ]_vars

\* the reply call of a message raised after its brand was merged, and a
\* second message has put its user entry next to the unanswered one
C33_Witness ==
    /\ resp.op = "message" /\ resp.raised = "create"
    /\ resp.sid \in DOMAIN _SESSIONS
    /\ LET st == _SESSIONS[resp.sid]
       IN  /\ Len(st.history) = 3
           /\ st.history[2].role = "user" /\ st.history[3].role = "user"
           /\ st.fields["brand"] = JStr(<<"A">>)
           /\ st.missing = Tail(_FIELD_ORDER)

\* C34: the done value of a message call that returns is true exactly when
\* missing is empty after the call's merge or the reply content of this
\* call holds the sentinel, whatever earlier calls returned
C34_DoneNotStored ==
    [][ \A r \in Slots :
          (req[r].pc = "message_reply" /\ req'[r].pc = "idle" /\ resp'.status = 200) =>
              resp'.done = (\/ Len(_SESSIONS'[req[r].sid].missing) = 0
                            \/ Contains(resp'.content.s, Sentinel)) ]_vars

\* a message call returned done = false on a session whose earlier message
\* call had returned done = true through the sentinel
C34_Witness ==
    /\ resp.op = "message" /\ resp.status = 200 /\ ~resp.done
    /\ resp.content = JStr(<<"o", "k">>)
    /\ LET st == _SESSIONS[resp.sid]
       IN  /\ st.missing # << >>
           /\ Len(st.history) = 5
           /\ st.history[3] = [role |-> "assistant", text |-> JStr(Sentinel)]

====
